---- MODULE Spec2Model ----
(***************************************************************************)
(* Model of src/index.js (multisite-lighthouse-gcp): the debounce gate     *)
(* checkEventState, the fan-out sendAllPubsubMsgs / sendToPubsub and the   *)
(* Cloud Function launchLighthouse.                                        *)
(*                                                                         *)
(* Strings are sequences of atoms.  The atom "_" is the separator          *)
(* character; every other atom is a run of characters holding no "_".      *)
(* So 'a_b' is <<"a","_","b">> and '' is <<>>.                             *)
(***************************************************************************)
EXTENDS Integers, Sequences, FiniteSets, TLC

VARIABLES
  THIRDPARTY_TO_BLOCK, \* process.env.THIRDPARTY_TO_BLOCK is set (truthy)
  SOURCE_URL,          \* process.env.SOURCE_URL is set (truthy)
  source,              \* config.source: sequence of [id, url]
  clock,               \* what new Date().getTime() returns
  store,               \* bucket: file `${id}/state.json` -> parsed table
  sink,                \* per invocation: the messages it handed to publish(), in order
  uuidCount,           \* number of uuidv1() calls made so far
  inv                  \* the invocations: locals and position of each

vars == <<THIRDPARTY_TO_BLOCK, SOURCE_URL, source, clock, store, sink, uuidCount, inv>>

-----------------------------------------------------------------------------
(* Bounds *)

NProcs == 2

\* Most messages the direct sendAllPubsubMsgs calls of one run may publish.
MaxSink == 6

\* config.minTimeBetweenTriggers, the cooldown window in milliseconds, as
\* configured for the runs checked.
minTimeBetweenTriggers == 1000

Procs == 1..NProcs

\* Timestamps (epoch milliseconds) the clock and the callers' timeNow range over.
Times == {0, 400, 900, 2000}

-----------------------------------------------------------------------------
(* Constants of the program *)

separator == "_"
thirdPartyBlocked == "3PBlocked"
thirdPartyIncluded == "3PIncluded"


\* The string literal of line 382.
MsgLiteral == <<"Buffer.from(event.data, 'base64').toString()">>

\* JavaScript's undefined, as a value comparable with strings.
undefined == <<"\\undefined">>

all == <<"all">>

-----------------------------------------------------------------------------
(* Pure helpers *)

Range(s) == {s[i] : i \in DOMAIN s}

\* String.prototype.split(separator): the pieces between separators, empty
\* pieces included; ''.split('_') is [''].
RECURSIVE Split(_)
Split(s) ==
  IF s = <<>> THEN << <<>> >>
  ELSE LET r == Split(Tail(s)) IN
       IF Head(s) = separator THEN << <<>> >> \o r
       ELSE << <<Head(s)>> \o Head(r) >> \o Tail(r)

\* parts[k] of a JavaScript array (0-based; undefined past the end).
Part(parts, k) == IF k < Len(parts) THEN parts[k + 1] ELSE undefined

\* Math.round(n / 1000) = floor(n / 1000 + 0.5).
MathRoundDiv1000(n) == (n + 500) \div 1000

\* The uuid returned by the n-th uuidv1() call: a fresh separator-free string.
UuidNames == <<"uuid1", "uuid2", "uuid3", "uuid4", "uuid5", "uuid6", "uuid7", "uuid8">>
uuidv1(n) == <<UuidNames[n]>>

\* obj[k] = v on a JavaScript object used as a table.
Put(obj, k, v) == [x \in (DOMAIN obj) \cup {k} |-> IF x = k THEN v ELSE obj[x]]

-----------------------------------------------------------------------------
(* Inputs *)

IdA == <<"a">>
IdAB == <<"a", "_", "b">>

\* config.source as it may be configured (the url of a target plays no part).
SourceAB == << [id |-> IdA, url |-> "urlA"], [id |-> IdAB, url |-> "urlAB"] >>
SourceAL == << [id |-> IdA, url |-> "urlA"], [id |-> MsgLiteral, url |-> "urlL"] >>
Sources == {SourceAB, SourceAL}

\* Identities a direct caller of checkEventState passes.
GateIds == {IdA, MsgLiteral}

\* Identity lists a direct caller of sendAllPubsubMsgs passes.
IdLists == { <<>>, <<IdA>>, <<IdA, IdAB>> }

-----------------------------------------------------------------------------
(* Invocation records *)

NotReturned == [status |-> "pending"]
Threw == [status |-> "threw"]
Returned(v) == [status |-> "returned", value |-> v]

Idle ==
  [ fn |-> "none",            \* the function invoked from outside
    pc |-> "idle",            \* where the invocation stands
    event |-> <<>>,           \* launchLighthouse: the decoded event.data
    msg |-> <<>>,             \* launchLighthouse: msg
    msgParts |-> <<>>,        \* launchLighthouse: msgParts
    id |-> <<>>,              \* checkEventState: id
    timeNow |-> 0,            \* checkEventState: timeNow
    stored |-> <<>>,          \* what the bucket held for id when it was read
    loaded |-> <<>>,          \* eventStates right after the load
    loadFailed |-> FALSE,     \* the download or the parse of line 319-321 threw
    saveFailed |-> FALSE,     \* the save of line 336 threw
    eventStates |-> <<>>,     \* checkEventState: eventStates
    eventState |-> NotReturned, \* what checkEventState gave its caller
    ids |-> <<>>,             \* sendAllPubsubMsgs: ids
    executionId |-> <<>>,     \* sendAllPubsubMsgs: executionId
    handed |-> <<>>,          \* per id: messages handed to sendToPubsub
    settled |-> <<>>,         \* per id: sendToPubsub calls that returned
    url |-> "none",           \* launchBrowserWithLighthouse: url
    lighthouseFlags |-> <<>>, \* launchBrowserWithLighthouse: lighthouseFlags
    browser |-> "none",       \* what puppeteer.launch did: "launched" or "failed"
    closed |-> FALSE,         \* browser.close() was called
    attempts |-> 0,           \* calls of lighthouse(url, lighthouseFlags)
    outcome |-> "none" ]      \* how the invocation ended

\* Where control goes when checkEventState settles.
AfterCheckEventState(r) == IF r.fn = "launchLighthouse" THEN "launchLighthouse:427" ELSE "done"
AfterOutcome(r) == IF r.fn = "launchLighthouse" THEN "none" ELSE "returned"

-----------------------------------------------------------------------------
(* checkEventState, lines 313-340 *)

\* Lines 329-330 without the comparison with the cooldown window.
IsActiveAnyDelta(id, eventStates, timeNow) ==
  /\ id \in DOMAIN eventStates
  /\ timeNow - eventStates[id].created # 0

\* Lines 329-330: delta && delta < config.minTimeBetweenTriggers.
IsActive(id, eventStates, timeNow) ==
  /\ id \in DOMAIN eventStates
  /\ LET delta == timeNow - eventStates[id].created IN
       /\ delta # 0
       /\ delta < minTimeBetweenTriggers

\* Line 331: the value returned for an active event.
ActiveResult(id, eventStates, timeNow) ==
  [active |-> TRUE, delta |-> MathRoundDiv1000(timeNow - eventStates[id].created)]

\* Line 335 left out: the table is saved as it was loaded.
WriteStateSkipped(id, eventStates, timeNow) == eventStates

\* Line 335: eventStates[id] = {created: timeNow}.
WriteState(id, eventStates, timeNow) == Put(eventStates, id, [created |-> timeNow])

\* Lines 319 and 336 with one state file shared by all ids.
StateFileShared(id) == <<"state.json">>

\* Lines 319 and 336: the file `${id}/state.json`, one per id, named here
\* by the id.
StateFile(id) == id

\* Lines 315-326 with the table in the bucket read even when the load
\* throws (eventStates set before the try block from an earlier copy).
LoadedOrStale(ok, id) ==
  IF StateFile(id) \in DOMAIN store THEN store[StateFile(id)] ELSE <<>>

\* Lines 315-326: eventStates = {}, replaced by the parsed file only when the
\* download and the parse succeed; the catch of line 323 only logs.
Loaded(ok, id) == IF ok THEN store[StateFile(id)] ELSE <<>>

\* Lines 330-332 with the write and save of lines 335-336 done before the test.
ActiveBranchStoreRefreshed(id, eventStates, timeNow) ==
  Put(store, StateFile(id), WriteState(id, eventStates, timeNow))

\* Lines 330-332: the active branch returns before lines 335-336; the bucket
\* is left as it is.
ActiveBranchStore(id, eventStates, timeNow) == store

\* Lines 336-339 with the save wrapped in a try/catch that only logs.
SaveSettledSwallowed(ok) == Returned([active |-> FALSE])

\* Lines 336-339: the save is awaited outside any try block, so a failed
\* save rejects the promise of checkEventState; else line 339 returns.
SaveSettled(ok) == IF ok THEN Returned([active |-> FALSE]) ELSE Threw

\* Entry of checkEventState(id, timeNow).
EnterCheckEventState(r, id, timeNow) ==
  [r EXCEPT !.pc = "checkEventState:load", !.id = id, !.timeNow = timeNow]

\* A direct call of the exported checkEventState.
CheckEventStateCall(p, id, timeNow) ==
  /\ inv[p].fn = "none"
  /\ inv' = [inv EXCEPT ![p] =
               EnterCheckEventState([Idle EXCEPT !.fn = "checkEventState"], id, timeNow)]
  /\ UNCHANGED <<THIRDPARTY_TO_BLOCK, SOURCE_URL, source, clock, store, sink, uuidCount>>

\* Lines 315-332: download and parse the state file (any failure leaves
\* eventStates = {}), then decide; an active event returns at once.
CheckEventStateLoad(p) ==
  /\ inv[p].pc = "checkEventState:load"
  /\ \E ok \in BOOLEAN :
       /\ ok => StateFile(inv[p].id) \in DOMAIN store
       /\ LET r == inv[p]
              held == IF StateFile(r.id) \in DOMAIN store THEN store[StateFile(r.id)] ELSE <<>>
              eventStates == Loaded(ok, r.id)
              seen == [r EXCEPT !.stored = held, !.loaded = eventStates, !.loadFailed = ~ok]
          IN IF IsActive(r.id, eventStates, r.timeNow)
             THEN /\ inv' = [inv EXCEPT ![p] =
                       [seen EXCEPT !.eventStates = eventStates,
                                    !.eventState = Returned(ActiveResult(r.id, eventStates, r.timeNow)),
                                    !.pc = AfterCheckEventState(r),
                                    !.outcome = AfterOutcome(r)]]
                  /\ store' = ActiveBranchStore(r.id, eventStates, r.timeNow)
             ELSE /\ inv' = [inv EXCEPT ![p] =
                       [seen EXCEPT !.eventStates = WriteState(r.id, eventStates, r.timeNow),
                                    !.pc = "checkEventState:save"]]
                  /\ store' = store
  /\ UNCHANGED <<THIRDPARTY_TO_BLOCK, SOURCE_URL, source, clock, sink, uuidCount>>

\* Lines 336-339: save the whole table; a failed save rejects the promise.
CheckEventStateSave(p) ==
  /\ inv[p].pc = "checkEventState:save"
  /\ LET r == inv[p] IN
     \E ok \in BOOLEAN :
       /\ store' = IF ok THEN Put(store, StateFile(r.id), r.eventStates) ELSE store
       /\ inv' = [inv EXCEPT ![p] =
                    [r EXCEPT !.eventState = SaveSettled(ok),
                              !.saveFailed = ~ok,
                              !.pc = AfterCheckEventState(r),
                              !.outcome = IF r.fn = "launchLighthouse" THEN "none"
                                          ELSE IF SaveSettled(ok) = Threw THEN "threw"
                                          ELSE "returned"]]
  /\ UNCHANGED <<THIRDPARTY_TO_BLOCK, SOURCE_URL, source, clock, sink, uuidCount>>

-----------------------------------------------------------------------------
(* sendToPubsub and sendAllPubsubMsgs, lines 229-263 *)

\* The template string of lines 256-260.
PubsubMsg(id, thirdParty, device, executionId) ==
  id \o <<separator, thirdParty, separator, device, separator>> \o executionId

\* Lines 256-261 with the test of line 258 left out.
MsgsForIdAlwaysBlocked(id, executionId) ==
  << PubsubMsg(id, thirdPartyIncluded, "mobile", executionId),
     PubsubMsg(id, thirdPartyIncluded, "desktop", executionId),
     PubsubMsg(id, thirdPartyBlocked, "mobile", executionId),
     PubsubMsg(id, thirdPartyBlocked, "desktop", executionId) >>

\* Lines 256-261 with uuidv1() called anew for the desktop messages.
MsgsForIdFreshUuid(id, executionId) ==
  << PubsubMsg(id, thirdPartyIncluded, "mobile", executionId),
     PubsubMsg(id, thirdPartyIncluded, "desktop", uuidv1(8)) >>
  \o (IF THIRDPARTY_TO_BLOCK
      THEN << PubsubMsg(id, thirdPartyBlocked, "mobile", executionId),
              PubsubMsg(id, thirdPartyBlocked, "desktop", uuidv1(8)) >>
      ELSE <<>>)

\* Lines 256-261 with the desktop message sent before the mobile one.
MsgsForIdDesktopFirst(id, executionId) ==
  << PubsubMsg(id, thirdPartyIncluded, "desktop", executionId),
     PubsubMsg(id, thirdPartyIncluded, "mobile", executionId) >>
  \o (IF THIRDPARTY_TO_BLOCK
      THEN << PubsubMsg(id, thirdPartyBlocked, "desktop", executionId),
              PubsubMsg(id, thirdPartyBlocked, "mobile", executionId) >>
      ELSE <<>>)

\* Lines 256-261: the messages one id's callback sends, in order.
MsgsForId(id, executionId) ==
  << PubsubMsg(id, thirdPartyIncluded, "mobile", executionId),
     PubsubMsg(id, thirdPartyIncluded, "desktop", executionId) >>
  \o (IF THIRDPARTY_TO_BLOCK
      THEN << PubsubMsg(id, thirdPartyBlocked, "mobile", executionId),
              PubsubMsg(id, thirdPartyBlocked, "desktop", executionId) >>
      ELSE <<>>)

\* Lines 231-236: sendToPubsub(msg) hands msg to publish() before its first await.
Published(i, msg) == [task |-> i, msg |-> msg, status |-> "pending"]

\* Lines 232-243 with the caught error thrown again from the catch block.
PublishSettledRethrows(ok) == [status |-> IF ok THEN "sent" ELSE "failed", threw |-> ~ok]

\* Lines 232-243: publish() is awaited inside try; the catch of line 239
\* logs the error and sendToPubsub returns normally either way.
PublishSettled(ok) == [status |-> IF ok THEN "sent" ELSE "failed", threw |-> FALSE]

\* Lines 253-256: one executionId, then every id's callback runs up to the
\* await inside its first sendToPubsub, in the order of ids.
EnterSendAllPubsubMsgs(p, r, ids, n) ==
  LET executionId == uuidv1(n + 1) IN
  /\ uuidCount' = n + 1
  /\ sink' = [sink EXCEPT ![p] =
                 [i \in 1..Len(ids) |-> Published(i, MsgsForId(ids[i], executionId)[1])]]
  /\ inv' = [inv EXCEPT ![p] =
               [r EXCEPT !.pc = "sendAllPubsubMsgs:join",
                         !.ids = ids,
                         !.executionId = executionId,
                         !.handed = [i \in 1..Len(ids) |-> 1],
                         !.settled = [i \in 1..Len(ids) |-> 0]]]

\* A direct call of the exported sendAllPubsubMsgs.
SendAllPubsubMsgsCall(p, ids) ==
  /\ inv[p].fn = "none"
  /\ EnterSendAllPubsubMsgs(p, [Idle EXCEPT !.fn = "sendAllPubsubMsgs"], ids, uuidCount)
  /\ UNCHANGED <<THIRDPARTY_TO_BLOCK, SOURCE_URL, source, clock, store>>

\* Lines 232-243 and 256-261: the publish of id i settles, accepted or not
\* (a failure is caught and logged); sendToPubsub returns and the callback
\* goes on to its next sendToPubsub, if any.  Were sendToPubsub to throw,
\* the callback would stop and Promise.all (line 254) would reject.
SendToPubsubSettle(p, i) ==
  /\ inv[p].pc = "sendAllPubsubMsgs:join"
  /\ i \in DOMAIN inv[p].ids
  /\ inv[p].settled[i] < inv[p].handed[i]
  /\ \E ok \in BOOLEAN :
       LET r == inv[p]
           msgs == MsgsForId(r.ids[i], r.executionId)
           res == PublishSettled(ok)
           more == ~res.threw /\ r.handed[i] < Len(msgs)
       IN /\ sink' = [sink EXCEPT ![p] =
                 [k \in 1..Len(sink[p]) |->
                    IF sink[p][k].task = i /\ sink[p][k].status = "pending"
                    THEN [sink[p][k] EXCEPT !.status = res.status]
                    ELSE sink[p][k]]
                 \o (IF more THEN << Published(i, msgs[r.handed[i] + 1]) >> ELSE <<>>)]
          /\ inv' = [inv EXCEPT ![p] =
                       [r EXCEPT !.settled[i] = @ + 1,
                                 !.handed[i] = IF more THEN @ + 1 ELSE @,
                                 !.pc = IF res.threw THEN "done" ELSE @,
                                 !.outcome = IF res.threw THEN "threw" ELSE @]]
  /\ UNCHANGED <<THIRDPARTY_TO_BLOCK, SOURCE_URL, source, clock, store, uuidCount>>

\* Lines 254 and 262: Promise.all resolves once every callback has returned.
SendAllPubsubMsgsReturn(p) ==
  /\ inv[p].pc = "sendAllPubsubMsgs:join"
  /\ \A i \in DOMAIN inv[p].ids :
       inv[p].settled[i] = Len(MsgsForId(inv[p].ids[i], inv[p].executionId))
  /\ inv' = [inv EXCEPT ![p] =
               [inv[p] EXCEPT !.pc = "done",
                              !.outcome = IF inv[p].fn = "launchLighthouse"
                                          THEN "dispatched:405" ELSE "returned"]]
  /\ UNCHANGED <<THIRDPARTY_TO_BLOCK, SOURCE_URL, source, clock, store, sink, uuidCount>>

-----------------------------------------------------------------------------
(* launchBrowserWithLighthouse, lines 72-113 *)

\* The lighthouseFlags a caller passes: none, or what lines 385-391 build.
\* A flags object is the sequence of the names of its properties.
AuditFlags ==
  { <<>>,
    <<"emulatedFormFactor">>,
    <<"blockedUrlPatterns", "emulatedFormFactor">> }

\* A direct call of the exported launchBrowserWithLighthouse, up to the
\* await of line 76.
LaunchBrowserWithLighthouseCall(p, id, url, lighthouseFlags) ==
  /\ inv[p].fn = "none"
  /\ inv' = [inv EXCEPT ![p] =
               [Idle EXCEPT !.fn = "launchBrowserWithLighthouse",
                            !.pc = "launchBrowserWithLighthouse:76",
                            !.id = id,
                            !.url = url,
                            !.lighthouseFlags = lighthouseFlags]]
  /\ UNCHANGED <<THIRDPARTY_TO_BLOCK, SOURCE_URL, source, clock, store, sink, uuidCount>>

\* Lines 76-87: puppeteer.launch settles, a failure being caught and
\* logged.  browser is declared by const inside the try block of line 75,
\* so line 87 reads a name that is not in scope: the function throws a
\* ReferenceError there, before launch() of line 89 is defined or called
\* and outside the try/finally of lines 102-112 that closes the browser.
LaunchBrowserWithLighthouseLine87(p) ==
  /\ inv[p].pc = "launchBrowserWithLighthouse:76"
  /\ \E ok \in BOOLEAN :
       inv' = [inv EXCEPT ![p] =
                 [inv[p] EXCEPT !.browser = IF ok THEN "launched" ELSE "failed",
                                !.pc = "done",
                                !.outcome = "threw:87"]]
  /\ UNCHANGED <<THIRDPARTY_TO_BLOCK, SOURCE_URL, source, clock, store, sink, uuidCount>>

-----------------------------------------------------------------------------
(* launchLighthouse, lines 349-494 *)

\* Line 382: msg is a string literal; event.data is not read.
Msg(event) == MsgLiteral

\* Line 393: ids = source.map(obj => obj.id).
Ids == [i \in 1..Len(source) |-> source[i].id]

\* Line 387 dereferences process.env.THIRDPARTY_TO_BLOCK.
Line387Throws(msgParts) ==
  Part(msgParts, 1) = <<thirdPartyBlocked>> /\ ~THIRDPARTY_TO_BLOCK

\* Line 402: the message is not valid.
NoValidMessage(idMsg) == idMsg # all /\ idMsg \notin Range(Ids)

\* Lines 351-419: from the trigger to the first await that shares state.
\*   SOURCE_URL set: line 367 reads externalSource, which is declared by
\*   const inside the try block of line 360 and so is not in scope: the
\*   function throws a ReferenceError.
LaunchLighthouse(p, event) ==
  /\ inv[p].fn = "none"
  /\ LET r == [Idle EXCEPT !.fn = "launchLighthouse", !.event = event]
         msg == Msg(event)
         msgParts == Split(msg)
         idMsg == Part(msgParts, 0)
         d == [r EXCEPT !.msg = msg, !.msgParts = msgParts]
     IN
     IF SOURCE_URL
     THEN /\ inv' = [inv EXCEPT ![p] = [r EXCEPT !.pc = "done", !.outcome = "threw:367"]]
          /\ UNCHANGED <<sink, uuidCount>>
     ELSE IF Line387Throws(msgParts)
     THEN /\ inv' = [inv EXCEPT ![p] = [d EXCEPT !.pc = "done", !.outcome = "threw:387"]]
          /\ UNCHANGED <<sink, uuidCount>>
     ELSE IF NoValidMessage(idMsg)
     THEN /\ inv' = [inv EXCEPT ![p] = [d EXCEPT !.pc = "done", !.outcome = "rejected:402"]]
          /\ uuidCount' = uuidCount + 1
          /\ UNCHANGED sink
     ELSE IF idMsg = all
     THEN EnterSendAllPubsubMsgs(p, d, Ids, uuidCount + 1)
     ELSE /\ inv' = [inv EXCEPT ![p] = EnterCheckEventState(d, msg, clock)]
          /\ uuidCount' = uuidCount + 1
          /\ UNCHANGED sink
  /\ UNCHANGED <<THIRDPARTY_TO_BLOCK, SOURCE_URL, source, clock, store>>

\* Lines 417-427: eventState is declared by const inside the try block of
\* line 417, so line 427 reads a name that is not in scope: whatever
\* checkEventState gave, the function throws a ReferenceError here.
LaunchLighthouseLine427(p) ==
  /\ inv[p].pc = "launchLighthouse:427"
  /\ inv' = [inv EXCEPT ![p] = [inv[p] EXCEPT !.pc = "done", !.outcome = "threw:427"]]
  /\ UNCHANGED <<THIRDPARTY_TO_BLOCK, SOURCE_URL, source, clock, store, sink, uuidCount>>

\* Payloads the trigger may deliver: the first and the last message the
\* fan-out publishes for a target, and payloads from elsewhere.
Payloads ==
  UNION { LET msgs == MsgsForId(id, uuidv1(1)) IN {msgs[1], msgs[Len(msgs)]} : id \in {IdA, IdAB} }
  \cup
  { all,
    all \o <<separator, thirdPartyBlocked, separator, "desktop", separator, "x">>,
    <<>>,
    <<"zzz">>,
    PubsubMsg(IdA, thirdPartyIncluded, "mobile", <<"x">>) \o <<separator, "y">> }

-----------------------------------------------------------------------------
(* The clock *)

Tick ==
  /\ \E t \in Times :
       /\ t > clock
       /\ \A u \in Times : u > clock => t <= u
       /\ clock' = t
  /\ UNCHANGED <<THIRDPARTY_TO_BLOCK, SOURCE_URL, source, store, sink, uuidCount, inv>>

-----------------------------------------------------------------------------
(* Specifications *)

Init ==
  /\ THIRDPARTY_TO_BLOCK \in BOOLEAN
  /\ SOURCE_URL \in BOOLEAN
  /\ source \in Sources
  /\ clock = 0
  /\ store = <<>>
  /\ sink = [p \in Procs |-> <<>>]
  /\ uuidCount = 0
  /\ inv = [p \in Procs |-> Idle]

\* The environment and the target list play no part in a direct call.
DirectInit == Init /\ ~SOURCE_URL /\ source = SourceAB

\* The debounce gate alone, called directly.
GateNext ==
  \/ \E p \in Procs, id \in GateIds, timeNow \in Times : CheckEventStateCall(p, id, timeNow)
  \/ \E p \in Procs : CheckEventStateLoad(p)
  \/ \E p \in Procs : CheckEventStateSave(p)

\* What the bucket may hold when the calls start: nothing, or the state
\* file an earlier admission of IdA left.
Buckets == { <<>>, [f \in {IdA} |-> [k \in {IdA} |-> [created |-> 0]]] }

GateInit ==
  /\ THIRDPARTY_TO_BLOCK = FALSE
  /\ SOURCE_URL = FALSE
  /\ source = SourceAB
  /\ clock = 0
  /\ store \in Buckets
  /\ sink = [p \in Procs |-> <<>>]
  /\ uuidCount = 0
  /\ inv = [p \in Procs |-> Idle]

GateSpec == GateInit /\ [][GateNext]_vars

\* Messages the sendAllPubsubMsgs calls made so far publish in all.
Planned ==
  LET n[k \in 0..NProcs] ==
        IF k = 0 THEN 0
        ELSE n[k - 1] + Len(inv[k].ids) * (IF THIRDPARTY_TO_BLOCK THEN 4 ELSE 2)
  IN n[NProcs]

SendAllPubsubMsgsCalled ==
  \E p \in Procs, ids \in IdLists :
    /\ Planned + Len(ids) * (IF THIRDPARTY_TO_BLOCK THEN 4 ELSE 2) <= MaxSink
    /\ SendAllPubsubMsgsCall(p, ids)

\* The fan-out alone, called directly.
FanoutNext ==
  \/ SendAllPubsubMsgsCalled
  \/ \E p \in Procs : \E i \in DOMAIN inv[p].ids : SendToPubsubSettle(p, i)
  \/ \E p \in Procs : SendAllPubsubMsgsReturn(p)

FanoutSpec == DirectInit /\ [][FanoutNext]_vars

\* The Cloud Function under its trigger, with the fan-out and the gate it calls.
HandlerNext ==
  \/ \E p \in Procs, event \in Payloads : LaunchLighthouse(p, event)
  \/ \E p \in Procs : LaunchLighthouseLine427(p)
  \/ \E p \in Procs : CheckEventStateLoad(p)
  \/ \E p \in Procs : CheckEventStateSave(p)
  \/ Tick

HandlerSpec == Init /\ [][HandlerNext]_vars

\* The fan-out alone, every pending publish settling in the end and the
\* continuation of a settled Promise.all being run.
FanoutFairSpec ==
  /\ FanoutSpec
  /\ \A p \in Procs : WF_vars(SendAllPubsubMsgsReturn(p))
  /\ \A p \in Procs : \A i \in 1..2 : WF_vars(SendToPubsubSettle(p, i))

\* The audit alone, called directly.
AuditNext ==
  \/ \E p \in Procs, i \in DOMAIN SourceAB, lighthouseFlags \in AuditFlags :
       LaunchBrowserWithLighthouseCall(p, SourceAB[i].id, SourceAB[i].url, lighthouseFlags)
  \/ \E p \in Procs : LaunchBrowserWithLighthouseLine87(p)

AuditInit == DirectInit /\ ~THIRDPARTY_TO_BLOCK

AuditSpec == AuditInit /\ [][AuditNext]_vars

Next == GateNext \/ FanoutNext \/ HandlerNext \/ AuditNext

Spec == Init /\ [][Next]_vars

-----------------------------------------------------------------------------
(* Properties of checkEventState *)

\* A direct call of checkEventState that has settled.
GateDone(r) == r.fn = "checkEventState" /\ r.pc = "done"

\* A direct call of checkEventState that has loaded the table and decided.
GatePastLoad(r) == r.fn = "checkEventState" /\ r.pc \in {"checkEventState:save", "done"}

\* The step settles a checkEventState call of p without a failed save.
GateReturns(p) ==
  /\ inv[p].pc # inv'[p].pc
  /\ inv'[p].pc \in {"done", "launchLighthouse:427"}
  /\ inv'[p].eventState.status = "returned"

\* C1: a call that loads an entry created at t1 for its identity, at a time
\* t2 with 0 <= t2 - t1 < minTimeBetweenTriggers (t2 = t1 included), returns
\* active:true with a delta within half a second of (t2 - t1) / 1000.
C1_ActiveWithinCooldown ==
  \A p \in Procs :
    LET r == inv[p] IN
    (GatePastLoad(r) /\ r.id \in DOMAIN r.loaded) =>
      LET elapsed == r.timeNow - r.loaded[r.id].created IN
      (0 <= elapsed /\ elapsed < minTimeBetweenTriggers) =>
        /\ r.eventState.status = "returned"
        /\ r.eventState.value.active
        /\ 2 * (1000 * r.eventState.value.delta - elapsed) <= 1000
        /\ 2 * (elapsed - 1000 * r.eventState.value.delta) <= 1000

\* C3: a call for an identity that has no entry in the State Store never
\* returns active:true; when it returns it returns active:false, and the
\* State Store then holds created = now for that identity.
C3_UnseenIdentityAdmitted ==
  [][\A p \in Procs :
       (GateReturns(p) /\ inv'[p].id \notin DOMAIN inv'[p].stored) =>
         /\ inv'[p].eventState.value = [active |-> FALSE]
         /\ inv'[p].id \in DOMAIN store'
         /\ inv'[p].id \in DOMAIN store'[inv'[p].id]
         /\ store'[inv'[p].id][inv'[p].id].created = inv'[p].timeNow]_vars

C3_Witness ==
  \E p \in Procs :
    LET r == inv[p] IN
    /\ GateDone(r)
    /\ r.id \notin DOMAIN r.stored
    /\ r.eventState = Returned([active |-> FALSE])
    /\ r.timeNow > 0
    /\ store[r.id][r.id].created = r.timeNow

\* C4: a call at t2 for an identity whose stored entry was created at t1,
\* with t2 - t1 greater than minTimeBetweenTriggers, never returns
\* active:true; when it returns it returns active:false, and the stored
\* entry's created is t2 afterwards.
C4_ExpiredEntryOverwritten ==
  [][\A p \in Procs :
       ( /\ GateReturns(p)
         /\ inv'[p].id \in DOMAIN inv'[p].stored
         /\ inv'[p].timeNow - inv'[p].stored[inv'[p].id].created > minTimeBetweenTriggers ) =>
         /\ inv'[p].eventState.value = [active |-> FALSE]
         /\ inv'[p].id \in DOMAIN store'
         /\ inv'[p].id \in DOMAIN store'[inv'[p].id]
         /\ store'[inv'[p].id][inv'[p].id].created = inv'[p].timeNow]_vars

C4_Witness ==
  \E p \in Procs :
    LET r == inv[p] IN
    /\ GateDone(r)
    /\ r.id \in DOMAIN r.loaded
    /\ r.timeNow - r.loaded[r.id].created > minTimeBetweenTriggers
    /\ r.eventState = Returned([active |-> FALSE])
    /\ store[r.id][r.id].created = r.timeNow

\* C12: when the load of the state file fails, whatever the bucket holds,
\* the call does not fail there: it goes on with an empty table to the save
\* of a table holding created = now for its identity; and when the call
\* returns it returns active:false, the State Store holding created = now.
C12_FailOpenOnRead ==
  [][\A p \in Procs :
       /\ ( /\ inv[p].pc = "checkEventState:load"
            /\ inv'[p].pc # "checkEventState:load"
            /\ inv'[p].loadFailed ) =>
            /\ inv'[p].loaded = <<>>
            /\ inv'[p].pc = "checkEventState:save"
            /\ inv'[p].eventState = NotReturned
            /\ DOMAIN inv'[p].eventStates = {inv'[p].id}
            /\ inv'[p].eventStates[inv'[p].id].created = inv'[p].timeNow
       /\ (GateReturns(p) /\ inv'[p].loadFailed) =>
            /\ inv'[p].eventState.value = [active |-> FALSE]
            /\ inv'[p].id \in DOMAIN store'
            /\ inv'[p].id \in DOMAIN store'[inv'[p].id]
            /\ store'[inv'[p].id][inv'[p].id].created = inv'[p].timeNow]_vars

C12_Witness ==
  \E p \in Procs :
    LET r == inv[p] IN
    /\ GateDone(r)
    /\ r.loadFailed
    /\ r.id \in DOMAIN r.stored
    /\ r.timeNow - r.stored[r.id].created > 0
    /\ r.timeNow - r.stored[r.id].created < minTimeBetweenTriggers
    /\ r.eventState = Returned([active |-> FALSE])
    /\ store[r.id][r.id].created = r.timeNow

\* C13: the step in which the save of an admitting call settles gives the
\* caller a failure, and leaves the State Store as it was, when the save
\* failed; it gives active:false only when the save succeeded, the State
\* Store then holding the table with created = now for the identity.
C13_WriteFailurePropagates ==
  [][\A p \in Procs :
       (inv[p].pc = "checkEventState:save" /\ inv'[p].pc # "checkEventState:save") =>
         IF inv'[p].saveFailed
         THEN /\ inv'[p].eventState = Threw
              /\ store' = store
         ELSE /\ inv'[p].eventState = Returned([active |-> FALSE])
              /\ inv'[p].id \in DOMAIN store'
              /\ store'[inv'[p].id] = inv[p].eventStates
              /\ store'[inv'[p].id][inv'[p].id].created = inv'[p].timeNow]_vars

C13_Witness ==
  \E p \in Procs :
    LET r == inv[p] IN
    /\ GateDone(r)
    /\ r.saveFailed
    /\ r.eventState = Threw
    /\ r.outcome = "threw"
    /\ r.id \notin DOMAIN store

\* C19: the step in which a call returns active:true leaves the State Store
\* unchanged; and a call made when minTimeBetweenTriggers or more have passed
\* since the created timestamp the State Store holds for its identity never
\* returns active:true: when it returns it returns active:false.
C19_ActiveReturnWritesNothing ==
  [][\A p \in Procs :
       /\ (GateReturns(p) /\ inv'[p].eventState.value.active) =>
            store' = store
       /\ ( /\ GateReturns(p)
            /\ inv'[p].id \in DOMAIN inv'[p].stored
            /\ inv'[p].timeNow - inv'[p].stored[inv'[p].id].created >= minTimeBetweenTriggers ) =>
            inv'[p].eventState.value = [active |-> FALSE]]_vars

\* The entry created at t1 is still in the State Store after a check at t2
\* within the cooldown was rejected, and a check
\* at t3 >= t1 + minTimeBetweenTriggers, t3 > t2, read that entry and was
\* admitted.
C19_Witness ==
  \E p \in Procs, q \in Procs :
    LET r == inv[p]
        a == inv[q]
    IN
    /\ p # q
    /\ GateDone(r)
    /\ r.eventState.status = "returned"
    /\ r.eventState.value.active
    /\ GateDone(a)
    /\ a.id = r.id
    /\ a.id \in DOMAIN a.stored
    /\ a.stored = r.stored
    /\ a.timeNow > r.timeNow
    /\ a.timeNow - a.stored[a.id].created >= minTimeBetweenTriggers
    /\ a.eventState = Returned([active |-> FALSE])
    /\ store[a.id][a.id].created = a.timeNow

\* The step is the return of active:false to a call for identity k made at
\* the time created.
AdmitsAt(k, created) ==
  \E p \in Procs :
    /\ inv[p].pc = "checkEventState:save"
    /\ GateReturns(p)
    /\ inv'[p].eventState.value = [active |-> FALSE]
    /\ inv'[p].id = k
    /\ inv'[p].timeNow = created

\* C21: no step of any checkEventState call removes an entry from the
\* State Store; and the entry the State Store holds for an identity is
\* created or changed only by the step that returns active:false to a call
\* for that same identity, its created timestamp then being that call's
\* 'now': a check for one key leaves the entries of all other keys as they
\* were.
C21_OtherKeysUntouched ==
  [][/\ \A f \in DOMAIN store : \A k \in DOMAIN store[f] :
          /\ f \in DOMAIN store'
          /\ k \in DOMAIN store'[f]
          /\ store'[f][k] # store[f][k] => AdmitsAt(k, store'[f][k].created)
     /\ \A f \in DOMAIN store' : \A k \in DOMAIN store'[f] :
          (f \notin DOMAIN store \/ k \notin DOMAIN store[f]) =>
            AdmitsAt(k, store'[f][k].created)]_vars

\* A check of IdA was rejected and a check of another identity, whose state
\* file could not be loaded, was admitted; the State Store holds for IdA
\* the entry of its admission at 0 and for the other identity its own now.
C21_Witness ==
  \E p \in Procs, q \in Procs :
    LET r == inv[p]
        a == inv[q]
    IN
    /\ GateDone(r)
    /\ r.id = IdA
    /\ r.eventState.status = "returned"
    /\ r.eventState.value.active
    /\ GateDone(a)
    /\ a.id # IdA
    /\ a.loadFailed
    /\ a.eventState = Returned([active |-> FALSE])
    /\ a.timeNow > r.timeNow
    /\ store[StateFile(IdA)][IdA].created = 0
    /\ store[StateFile(a.id)][a.id].created = a.timeNow

-----------------------------------------------------------------------------
(* Properties of sendAllPubsubMsgs *)

\* The payload that stands for (identity, mode, device, batch id): the four
\* tokens in this order, joined by "_".
Wire(identity, mode, device, batch) ==
  identity \o <<"_", mode, "_", device, "_">> \o batch

\* The modes one fan-out call covers.
ModesWanted == IF THIRDPARTY_TO_BLOCK THEN {"3PIncluded", "3PBlocked"} ELSE {"3PIncluded"}

\* A sendAllPubsubMsgs call that has resolved.
FanoutDone(r) == r.pc = "done" /\ r.outcome \in {"returned", "dispatched:405"}

\* C7: a fan-out call hands nothing to the sink but messages
\* (identity, mode, device) for an identity of its list, mode Included, or
\* Blocked if a blocklist is configured, and device mobile or desktop; once
\* it has resolved each of these was handed over exactly once, so n
\* identities yield 2n messages without a blocklist and 4n with one.
C7_ExactCrossProduct ==
  \A p \in Procs :
    LET r == inv[p] IN
    /\ \A k \in DOMAIN sink[p] :
         \E mode \in ModesWanted, device \in {"mobile", "desktop"} :
           /\ sink[p][k].task \in DOMAIN r.ids
           /\ sink[p][k].msg = Wire(r.ids[sink[p][k].task], mode, device, r.executionId)
    /\ FanoutDone(r) =>
         /\ \A i \in DOMAIN r.ids, mode \in ModesWanted, device \in {"mobile", "desktop"} :
              Cardinality({k \in DOMAIN sink[p] :
                             /\ sink[p][k].task = i
                             /\ sink[p][k].msg = Wire(r.ids[i], mode, device, r.executionId)}) = 1
         /\ Len(sink[p]) = Len(r.ids) * (IF THIRDPARTY_TO_BLOCK THEN 4 ELSE 2)

C7_Witness ==
  \E p \in Procs :
    /\ FanoutDone(inv[p])
    /\ Len(inv[p].ids) = 2
    /\ ~THIRDPARTY_TO_BLOCK
    /\ Len(sink[p]) = 4

\* The batch id a payload carries: its last token.
BatchOf(msg) == LET parts == Split(msg) IN parts[Len(parts)]

\* C8: all messages of one fan-out call carry the batch id generated when
\* the call started, and messages of two different calls never carry the
\* same batch id.
C8_OneBatchIdPerCall ==
  /\ \A p \in Procs : \A k \in DOMAIN sink[p] :
       BatchOf(sink[p][k].msg) = inv[p].executionId
  /\ \A p \in Procs, q \in Procs :
       (p # q /\ sink[p] # <<>> /\ sink[q] # <<>>) =>
         BatchOf(sink[p][1].msg) # BatchOf(sink[q][1].msg)

C8_Witness ==
  \E p \in Procs, q \in Procs :
    /\ p # q
    /\ Len(sink[p]) >= 4
    /\ Len(sink[q]) >= 2
    /\ inv[p].executionId # inv[q].executionId

\* C11: a sendAllPubsubMsgs call whose promise has resolved had every one
\* of its messages accepted by the sink (no publish of the call failed).
C11_ResolvesOnlyIfAllAccepted ==
  \A p \in Procs :
    FanoutDone(inv[p]) =>
      \A k \in DOMAIN sink[p] : sink[p][k].status = "sent"

\* The messages of identity i among those handed to the sink, in the order
\* of handing over.
HandedFor(p, i) == SelectSeq(sink[p], LAMBDA e : e.task = i)

\* Every message of the cross-product of call p was handed to the sink
\* exactly once.
AllHandedOnce(p) ==
  \A i \in DOMAIN inv[p].ids, mode \in ModesWanted, device \in {"mobile", "desktop"} :
    Cardinality({k \in DOMAIN sink[p] :
                   /\ sink[p][k].task = i
                   /\ sink[p][k].msg = Wire(inv[p].ids[i], mode, device, inv[p].executionId)}) = 1

\* C15: whichever publishes fail, a sendAllPubsubMsgs call that has started
\* leads to a state where it has resolved and every message of its
\* identities x modes x devices cross-product was handed to the sink
\* exactly once.
C15_FailureIndependence ==
  \A p \in Procs :
    (inv[p].pc = "sendAllPubsubMsgs:join") ~> (FanoutDone(inv[p]) /\ AllHandedOnce(p))

C15_Witness ==
  \E p \in Procs :
    /\ FanoutDone(inv[p])
    /\ Len(inv[p].ids) = 2
    /\ AllHandedOnce(p)
    /\ sink[p][1].status = "failed"
    /\ sink[p][2].status = "failed"
    /\ \E k \in DOMAIN sink[p] : k > 2 /\ sink[p][k].status = "sent"

\* The messages of one identity in the order lines 256-260 name them.
WireOrder(identity, batch) ==
  << Wire(identity, "3PIncluded", "mobile", batch),
     Wire(identity, "3PIncluded", "desktop", batch),
     Wire(identity, "3PBlocked", "mobile", batch),
     Wire(identity, "3PBlocked", "desktop", batch) >>

\* C16 as stated: of two messages handed to the sink by one call, the one
\* handed over first belongs to the same or to an earlier identity of the
\* input list.
C16_IdentitiesInInputOrder ==
  \A p \in Procs :
    \A k \in DOMAIN sink[p], j \in DOMAIN sink[p] :
      k < j => sink[p][k].task <= sink[p][j].task

\* C16, amended: the first messages of the identities are handed to the
\* sink in input order, before any other message; and the messages of one
\* identity are handed over in the order Included-mobile, Included-desktop,
\* Blocked-mobile, Blocked-desktop.
C16_OrderWithinIdentity ==
  \A p \in Procs :
    /\ \A k \in DOMAIN sink[p] : k <= Len(inv[p].ids) => sink[p][k].task = k
    /\ \A i \in DOMAIN inv[p].ids :
         LET sel == HandedFor(p, i)
             want == WireOrder(inv[p].ids[i], inv[p].executionId)
         IN /\ Len(sel) <= Len(want)
            /\ \A j \in DOMAIN sel : sel[j].msg = want[j]

C16_Witness ==
  \E p \in Procs :
    /\ FanoutDone(inv[p])
    /\ Len(inv[p].ids) = 2
    /\ Len(sink[p]) = 4
    /\ sink[p][3].task = 2
    /\ sink[p][4].task = 1

-----------------------------------------------------------------------------
(* Properties of launchLighthouse *)

\* A launchLighthouse invocation that has ended.
HandlerDone(r) == r.fn = "launchLighthouse" /\ r.pc = "done"

\* The identity a payload carries: its first token.
IdentityOf(payload) == Split(payload)[1]

\* C2: of two Trigger Handler invocations with the same gate key to which
\* checkEventState returned active:false, the 'now' timestamps lie at least
\* minTimeBetweenTriggers apart.
C2_AdmissionsOneWindowApart ==
  \A p \in Procs, q \in Procs :
    ( /\ p # q
      /\ inv[p].fn = "launchLighthouse"
      /\ inv[q].fn = "launchLighthouse"
      /\ inv[p].id = inv[q].id
      /\ inv[p].eventState = Returned([active |-> FALSE])
      /\ inv[q].eventState = Returned([active |-> FALSE])
      /\ inv[p].timeNow <= inv[q].timeNow ) =>
      inv[q].timeNow - inv[p].timeNow >= minTimeBetweenTriggers

\* C5: an invocation that received a message whose identity is neither
\* 'all' nor an id of the target list ends at the return of line 402
\* (Rejected(UnknownIdentity)) and has not invoked checkEventState.
C5_UnknownIdentityRejected ==
  \A p \in Procs :
    LET r == inv[p] IN
    ( /\ HandlerDone(r)
      /\ IdentityOf(r.event) # <<"all">>
      /\ IdentityOf(r.event) \notin Range(Ids) ) =>
      /\ r.outcome = "rejected:402"
      /\ r.eventState = NotReturned
      /\ sink[p] = <<>>

\* C6: an invocation that received a message whose first token is 'all'
\* ends as Dispatched, having run the fan-out over the whole target list.
C6_AllAlwaysDispatched ==
  \A p \in Procs :
    LET r == inv[p] IN
    (HandlerDone(r) /\ IdentityOf(r.event) = <<"all">>) =>
      /\ r.outcome = "dispatched:405"
      /\ r.ids = Ids

\* C9: an invocation that received the payload encoded for (identity, mode,
\* device, batch id), identity being an id of the target list, decodes these
\* same four fields from it.
C9_DecodeInvertsEncode ==
  \A p \in Procs :
    LET r == inv[p] IN
    \A identity \in Range(Ids), mode \in {"3PIncluded", "3PBlocked"},
       device \in {"mobile", "desktop"}, batch \in {uuidv1(1)} :
      ( /\ r.fn = "launchLighthouse"
        /\ r.msgParts # <<>>
        /\ r.event = Wire(identity, mode, device, batch) ) =>
        /\ Part(r.msgParts, 0) = identity
        /\ Part(r.msgParts, 1) = <<mode>>
        /\ Part(r.msgParts, 2) = <<device>>
        /\ Part(r.msgParts, 3) = batch

\* A payload with an empty identity or with more than four tokens.
Malformed(payload) == IdentityOf(payload) = <<>> \/ Len(Split(payload)) > 4

\* C10: an invocation that received a malformed payload ends rejected
\* without a fault, and has invoked neither checkEventState nor the fan-out.
C10_MalformedRejected ==
  \A p \in Procs :
    LET r == inv[p] IN
    (HandlerDone(r) /\ Malformed(r.event)) =>
      /\ r.outcome = "rejected:402"
      /\ r.eventState = NotReturned
      /\ sink[p] = <<>>

\* C14: the key a Trigger Handler invocation passes to checkEventState is
\* the identity its message carries, and an invocation to which
\* checkEventState returned active:true ends at the return of line 428
\* (Rejected(Debounced)).
C14_GateKeyIsIdentity ==
  \A p \in Procs :
    LET r == inv[p] IN
    /\ (r.fn = "launchLighthouse" /\ r.pc = "checkEventState:load") =>
         r.id = IdentityOf(r.event)
    /\ ( /\ HandlerDone(r)
         /\ r.eventState.status = "returned"
         /\ r.eventState.value.active ) =>
         r.outcome = "rejected:428"

\* C17: an invocation that has ended ended as Dispatched, Admitted->Proceed
\* or Rejected (lines 402 and 428), and has called lighthouse only if
\* checkEventState returned active:false to it.
C17_ThreeTerminalOutcomes ==
  \A p \in Procs :
    LET r == inv[p] IN
    HandlerDone(r) =>
      /\ r.outcome \in {"dispatched:405", "admitted", "rejected:402", "rejected:428"}
      /\ r.attempts > 0 => r.eventState = Returned([active |-> FALSE])

\* C18: an invocation that found in the State Store, for its key, the entry
\* an admitted invocation had saved, less than minTimeBetweenTriggers
\* before its own 'now', ends as Rejected(Debounced) without calling
\* lighthouse.
C18_RedeliveryDebounced ==
  \A p \in Procs, q \in Procs :
    LET a == inv[p]
        r == inv[q]
    IN
    ( /\ p # q
      /\ a.fn = "launchLighthouse"
      /\ a.eventState = Returned([active |-> FALSE])
      /\ HandlerDone(r)
      /\ r.id = a.id
      /\ r.id \in DOMAIN r.stored
      /\ r.stored[r.id].created = a.timeNow
      /\ r.timeNow - a.timeNow >= 0
      /\ r.timeNow - a.timeNow < minTimeBetweenTriggers ) =>
      /\ r.outcome = "rejected:428"
      /\ r.attempts = 0

-----------------------------------------------------------------------------
(* Properties of launchBrowserWithLighthouse *)

\* C20: a call of launchBrowserWithLighthouse that has ended called
\* lighthouse at most twice; and if its browser had started, it called
\* lighthouse at least once and has closed the browser.
C20_RetriedOnceBrowserClosed ==
  \A p \in Procs :
    LET r == inv[p] IN
    (r.fn = "launchBrowserWithLighthouse" /\ r.pc = "done") =>
      /\ r.attempts <= 2
      /\ r.browser = "launched" => (r.attempts >= 1 /\ r.closed)

====
